---- MODULE Spec2Model ----
(***************************************************************************)
(* Model of the real-time audio session core of src/App.tsx: the session   *)
(* lifecycle (startConnection / endConnection and the transport callbacks  *)
(* onopen, onerror, onclose), the inbound message handler                  *)
(* (handleSessionMessage: interruption, audio scheduling, tool calls) and  *)
(* the output timeline (nextStartTimeRef, sourcesRef), the capture         *)
(* callback (onaudioprocess), and of the wake-word detector of             *)
(* src/utils/wake-word-detector.ts.                                        *)
(*                                                                         *)
(* Every handler runs to completion between its await points, so one       *)
(* action is one synchronous run of a handler or of a continuation.        *)
(***************************************************************************)
EXTENDS Integers, Sequences, FiniteSets, TLC

\* ---------------------------------------------------------------- bounds
MaxStarts == 2      \* startConnection invocations in one behaviour
MaxMsgs   == 2      \* inbound messages in one behaviour
MaxTime   == 2      \* largest value of the output context's clock
MaxDur    == 2      \* longest decoded chunk, in clock units
MaxRecognitions == 2  \* SpeechRecognition objects created in one behaviour
MaxTimers == 2      \* restart timers of the wake-word detector pending at once

Attempts == 1..MaxStarts
MsgIds   == 1..MaxMsgs
Recognitions == 1..MaxRecognitions

Max(x, y) == IF x >= y THEN x ELSE y

\* ------------------------------------------------------------ credential
\* import.meta.env.VITE_API_KEY: undefined, or a string (sequence of symbols)
PLACEHOLDER == <<"your_google_gemini_api_key_here">>

ApiKeys ==
  { [defined |-> FALSE, chars |-> <<>>],
    [defined |-> TRUE,  chars |-> <<>>],
    [defined |-> TRUE,  chars |-> <<" ", " ">>],
    [defined |-> TRUE,  chars |-> PLACEHOLDER],
    [defined |-> TRUE,  chars |-> <<"A", "I">>] }

RECURSIVE TrimStart(_)
TrimStart(s) == IF s # <<>> /\ Head(s) = " " THEN TrimStart(Tail(s)) ELSE s

RECURSIVE TrimEnd(_)
TrimEnd(s) ==
  IF s # <<>> /\ s[Len(s)] = " " THEN TrimEnd(SubSeq(s, 1, Len(s) - 1)) ELSE s

trim(s) == TrimEnd(TrimStart(s))

\* the validation without the blank check (whitespace-only keys pass)
InvalidApiKeyNoTrim(k) ==
  \/ ~k.defined
  \/ k.chars = <<>>
  \/ k.chars = PLACEHOLDER

\* !apiKey || apiKey === '<placeholder>' || apiKey.trim() === ''
InvalidApiKey(k) ==
  \/ ~k.defined
  \/ k.chars = <<>>
  \/ k.chars = PLACEHOLDER
  \/ trim(k.chars) = <<>>

\* --------------------------------------------------------------- messages
\* one entry of message.toolCall.functionCalls: fc.name and fc.args.title (the
\* one argument whose value reaches a result or a persisted record)
Call(name, title) == [name |-> name, title |-> title]

\* the tool-call batches the transport delivers (the calls, in order)
Batches ==
  { <<>>,
    << Call("create_task", "Buy milk"), Call("set_alarm", "") >>,
    << Call("create_task", "Call mom"), Call("set_alarm", "") >> }

\* LiveServerMessage, reduced to the fields handleSessionMessage reads:
\* serverContent.interrupted, the inline audio payload (0: none, else the
\* duration of the decoded buffer) and toolCall.functionCalls
Messages == [interrupted : BOOLEAN, audio : 0..MaxDur, calls : Batches]

\* what a handler still reads of its message after its first await
NoMsg == [audio |-> 0, calls |-> <<>>]

\* a handler that skips the sign-in test
handlerSkipsSignInTest == TRUE

\* handleSessionMessage is memoised on [persistMemory, stopAllAudio], both
\* stable: the handler the transport calls is the one of the first render,
\* whose isGmailAuthenticated is the initial useState(false)
handlerIsGmailAuthenticated == FALSE

\* the names the tool loop has a branch for
ToolNames ==
  {"save_memory", "get_memories", "write_email", "create_task", "read_emails",
   "search_emails"}
MailTools == {"read_emails", "search_emails"}

\* the catch blocks around the awaited mail calls
MailFailureAdvisory(name) ==
  IF name = "read_emails"
    THEN <<"Sorry, I couldn't read your emails. Please try signing in again.">>
    ELSE <<"Sorry, I couldn't search your emails. Please try again.">>

\* gmailService.getUnreadEmails / searchEmails followed by summarizeEmails: the
\* awaited calls resolve or reject (no token, a failed fetch)
MailOutcomes == {"resolved", "rejected"}

\* try { ... result = await summarizeEmails(...) } catch { result = advisory }
MailResult(name, mail) ==
  IF mail = "resolved" THEN <<"summary">> ELSE MailFailureAdvisory(name)

\* the result the tool loop computes for one call (a string, as the sequence of
\* its literal and interpolated parts). The mail branches past the sign-in
\* test are never taken: see handlerIsGmailAuthenticated.
ToolResult(fc, mail) ==
  CASE fc.name = "save_memory"   -> <<"Memory saved successfully.">>
    [] fc.name = "get_memories"  -> <<"memories">>
    [] fc.name = "write_email"   -> <<"Email draft created!">>
    [] fc.name = "create_task"   -> <<"Task created: \"", fc.title, "\"">>
    [] fc.name = "read_emails"   ->
         IF ~handlerIsGmailAuthenticated
           THEN <<"Please sign in to Gmail first to read your emails.">>
           ELSE MailResult(fc.name, mail)
    [] fc.name = "search_emails" ->
         IF ~handlerIsGmailAuthenticated
           THEN <<"Please sign in to Gmail first to search your emails.">>
           ELSE MailResult(fc.name, mail)
    [] OTHER                     -> <<"ok">>

\* the gmailService calls (getUnreadEmails, searchEmails) the tool loop makes
\* over a batch: one per mail call that passes the sign-in test
gmailCalls(calls) ==
  Cardinality({i \in DOMAIN calls :
                 calls[i].name \in MailTools /\ handlerIsGmailAuthenticated})

\* a tasks list that forgets what was stored before
persistTaskOverwrite(stored, fc) == << [title |-> fc.title, completed |-> FALSE] >>

\* create_task: read the stored list, push { ...fc.args, completed: false },
\* write it back (the random id and the timestamp are left out)
persistTask(stored, fc) == Append(stored, [title |-> fc.title, completed |-> FALSE])

\* the stored tasks list after the tool loop has run over a batch
RECURSIVE persistTasks(_, _)
persistTasks(stored, calls) ==
  IF calls = <<>> THEN stored
  ELSE persistTasks(IF Head(calls).name = "create_task"
                      THEN persistTask(stored, Head(calls)) ELSE stored,
                    Tail(calls))

\* an optional field of a message (message.serverContent?.x): its text, or ""
Text(msg, field) == IF field \in DOMAIN msg THEN msg[field] ELSE ""
Flag(msg, field) == IF field \in DOMAIN msg THEN msg[field] ELSE FALSE

\* a transcript buffer that takes the new delta in front
appendDeltaInFront(prev, text) == IF text = "" THEN prev ELSE <<text>> \o prev

\* a transcript buffer that keeps the last delta only
appendDeltaOverwrites(prev, text) == IF text = "" THEN prev ELSE <<text>>

\* prev => prev + text (a buffer is the sequence of its non-empty deltas)
appendDelta(prev, text) == IF text = "" THEN prev ELSE Append(prev, text)

\* decodeAudioData(decode(audioData), ctx, 24000, 1): the awaited decode
\* either yields a buffer of the payload's duration or rejects
decodeAudioData(audio) == { "DecodeError", "buffer" }

\* ------------------------------------------------------------------ state
VARIABLES
  apiKey,            \* import.meta.env.VITE_API_KEY
  isGmailAuthenticated,  \* the App state set by handleGmailAuth
  status,            \* SessionStatus
  isSpeaking,
  sessionRef,        \* sessionRef.current: 0 (null) or the attempt whose session it holds
  streamRef,         \* streamRef.current: 0 or the attempt whose MediaStream it holds
  audioContextRef,   \* audioContextRef.current: 0 or the attempt that created the contexts
  audioNodesRef,     \* audioNodesRef.current: 0 or the attempt whose capture nodes it holds
  nextStartTimeRef,  \* the timeline cursor
  sourcesRef,        \* the active set: ids of the messages whose source it holds
  nStarts,           \* startConnection invocations so far
  startedInError,    \* history: the attempts whose startConnection was called in ERROR
  pc,                \* per attempt: where its startConnection is suspended
  mic,               \* per attempt: the MediaStream it acquired
  sess,              \* per attempt: its transport session
  nodes,             \* per attempt: the capture nodes its onopen created
  now,               \* currentTime of the current output AudioContext
  nMsgs,             \* inbound messages so far
  hpc,               \* per message: where its handler is
  hmsg,              \* per message: the audio payload and the calls its handler holds
  hctx,              \* per message: the context the handler captured (ctx)
  src,               \* per message: its AudioBufferSourceNode
  sstart,            \* per message: the time passed to source.start
  sent,              \* sendToolResponse calls, in order
  mailCalls,         \* history: gmailService calls made so far
  tasks,             \* the task list stored under TASKS_KEY
  currentInput,      \* the user transcript buffer
  currentOutput,     \* the model transcript buffer
  heard,             \* history, per message: the transcript fields it carried
  sched,             \* history of the timeline since the cursor was last reset
  endedWhile,        \* history: attempts that were suspended when endConnection ran
  pending,           \* per attempt: 0, or sessionRef.current at the tick of a frame
                     \* that waits for the attempt's session promise
  frames,            \* history: the sendRealtimeInput calls made
  recognition,       \* WakeWordDetector.recognition: 0 (null) or the object it holds
  isListening,       \* WakeWordDetector.isListening
  isWakeWordListening,  \* the App state set by onListeningStateChange
  engine,            \* per SpeechRecognition object: the browser's recognition
  nRecognitions,     \* SpeechRecognition objects created so far
  timers,            \* pending setTimeout(() => this.restart(), 100)
  stopped            \* history: stop() has returned and start() was not called since

capture   == <<pending, frames>>
wake      == <<recognition, isListening, isWakeWordListening, engine,
               nRecognitions, timers, stopped>>
lifecycle == <<wake, capture, apiKey, isGmailAuthenticated, status, sessionRef,
               streamRef, audioContextRef, audioNodesRef, nStarts, startedInError,
               pc, mic, sess, nodes, endedWhile>>
timeline  == <<isSpeaking, nextStartTimeRef, sourcesRef, src, sstart, sched>>
router    == <<nMsgs, hpc, hmsg, hctx, sent, mailCalls, tasks, currentInput,
               currentOutput, heard>>
vars      == <<lifecycle, timeline, router, now>>

\* a message without transcript fields
NoTranscript == [input |-> "", output |-> "", turnComplete |-> FALSE]

\* sched.n: chunks started; sched.end: start + duration of the last one started;
\* sched.gap: an arriving chunk raised the cursor to the clock since then;
\* sched.expect: the first arrival's max(cursor, deviceNow) plus the durations
\* of the chunks started (-1: no chunk has arrived)
NoSched == [n |-> 0, end |-> 0, gap |-> FALSE, expect |-> -1]

Init ==
  /\ apiKey \in ApiKeys
  /\ isGmailAuthenticated = FALSE
  /\ status = "IDLE"
  /\ isSpeaking = FALSE
  /\ sessionRef = 0
  /\ streamRef = 0
  /\ audioContextRef = 0
  /\ audioNodesRef = 0
  /\ nextStartTimeRef = 0
  /\ sourcesRef = {}
  /\ nStarts = 0
  /\ startedInError = {}
  /\ pc = [a \in Attempts |-> "idle"]
  /\ mic = [a \in Attempts |-> "none"]
  /\ sess = [a \in Attempts |-> "none"]
  /\ nodes = [a \in Attempts |-> "none"]
  /\ now = 0
  /\ nMsgs = 0
  /\ hpc = [m \in MsgIds |-> "none"]
  /\ hmsg = [m \in MsgIds |-> NoMsg]
  /\ hctx = [m \in MsgIds |-> 0]
  /\ src = [m \in MsgIds |-> "none"]
  /\ sstart = [m \in MsgIds |-> 0]
  /\ sent = <<>>
  /\ mailCalls = 0
  /\ tasks = <<>>
  /\ currentInput = <<>>
  /\ currentOutput = <<>>
  /\ heard = [m \in MsgIds |-> NoTranscript]
  /\ sched = NoSched
  /\ endedWhile = {}
  /\ pending = [a \in Attempts |-> 0]
  /\ frames = {}
  /\ recognition = 0
  /\ isListening = FALSE
  /\ isWakeWordListening = FALSE
  /\ engine = [r \in Recognitions |-> "none"]
  /\ nRecognitions = 0
  /\ timers = 0
  /\ stopped = FALSE


\* ------------------------------------------------------- timeline helpers
\* try { source.stop() } catch (e) { }: a playing source is stopped (its ended
\* event follows); stopping one that already ended throws, which is swallowed
StopSource(st) == IF st = "playing" THEN "stopped" ELSE st

\* the source states after stopAllAudio's forEach over the active set
StoppedSources == [m \in MsgIds |-> IF m \in sourcesRef THEN StopSource(src[m]) ELSE src[m]]

\* stopAllAudio: stop every active source, clear the set, reset the cursor
stopAllAudio ==
  /\ src' = StoppedSources
  /\ sourcesRef' = {}
  /\ nextStartTimeRef' = 0
  /\ sched' = NoSched

\* cleanupAudioNodes: disconnect the capture nodes the ref holds, null the ref
cleanupAudioNodes ==
  /\ nodes' = [a \in Attempts |-> IF a = audioNodesRef THEN "detached" ELSE nodes[a]]
  /\ audioNodesRef' = 0

\* Math.max(nextStartTimeRef.current, ctx.currentTime)
ClampCursor(cursor, deviceNow) == Max(cursor, deviceNow)

\* a cursor that does not move past a played chunk
AdvanceCursorStuck(cursor, duration) == cursor

\* nextStartTimeRef.current += buffer.duration
AdvanceCursor(cursor, duration) == cursor + duration

\* the functionResponses the tool loop sends for one message: one per call,
\* and only while sessionRef.current is set
ToolResponses(m, calls, session, mail) ==
  IF session = 0 THEN <<>>
  ELSE [i \in 1..Len(calls) |->
          [id |-> <<m, i>>, name |-> calls[i].name,
           result |-> ToolResult(calls[i], mail), to |-> session]]

\* ---------------------------------------------------------------- lifecycle
\* The Start button is rendered in IDLE and ERROR, the End button otherwise.
StartButton == status \in {"IDLE", "ERROR"}
EndButton   == status \in {"CONNECTING", "CONNECTED"}

\* The wake-word callback is created once, by the mount effect: the status it
\* tests is the one of the first render.
wakeWordStatus == "IDLE"

\* startConnection up to its first await
startConnection ==
  /\ nStarts < MaxStarts
  /\ nStarts' = nStarts + 1
  /\ startedInError' = IF status = "ERROR" THEN startedInError \cup {nStarts + 1}
                       ELSE startedInError
  /\ IF InvalidApiKey(apiKey)
       THEN /\ status' = "ERROR"
            /\ pc' = [pc EXCEPT ![nStarts + 1] = "done"]
       ELSE /\ status' = "CONNECTING"
            /\ pc' = [pc EXCEPT ![nStarts + 1] = "awaitMic"]
  /\ UNCHANGED <<wake, capture,
                 apiKey, isGmailAuthenticated, sessionRef, streamRef,
                 audioContextRef, audioNodesRef, mic, sess, nodes, endedWhile,
                 timeline, router, now>>

\* onClick of the Start button
ClickStart == StartButton /\ startConnection

\* the wake-word detector's onWakeWordDetected
WakeWord == wakeWordStatus = "IDLE" /\ startConnection

\* getUserMedia resolves: streamRef, the two AudioContexts, ai.live.connect
MicGranted(a) ==
  /\ pc[a] = "awaitMic"
  /\ mic' = [mic EXCEPT ![a] = "live"]
  /\ streamRef' = a
  /\ audioContextRef' = a
  /\ now' = 0
  /\ sess' = [sess EXCEPT ![a] = "connecting"]
  /\ pc' = [pc EXCEPT ![a] = "awaitSession"]
  /\ UNCHANGED <<wake, capture,
                 apiKey, isGmailAuthenticated, status, sessionRef,
                 audioNodesRef, nStarts, startedInError, nodes, endedWhile,
                 timeline, router>>

\* getUserMedia rejects: the catch block
MicDenied(a) ==
  /\ pc[a] = "awaitMic"
  /\ status' = "ERROR"
  /\ pc' = [pc EXCEPT ![a] = "done"]
  /\ UNCHANGED <<wake, capture,
                 apiKey, isGmailAuthenticated, sessionRef, streamRef,
                 audioContextRef, audioNodesRef, nStarts, startedInError, mic,
                 sess, nodes, endedWhile, timeline, router, now>>

\* the transport's onopen callback
onopen(a) ==
  /\ sess[a] = "connecting"
  /\ sess' = [sess EXCEPT ![a] = "open"]
  /\ status' = "CONNECTED"
  /\ nodes' = [nodes EXCEPT ![a] = "attached"]
  /\ audioNodesRef' = a
  /\ UNCHANGED <<wake, capture,
                 apiKey, isGmailAuthenticated, sessionRef, streamRef,
                 audioContextRef, nStarts, startedInError, pc, mic, endedWhile,
                 timeline, router, now>>

\* one sendRealtimeInput call: the attempt whose session receives the frame,
\* sessionRef.current at the tick that captured it and at the call
Frame(to, atTick, atSend) == [to |-> to, atTick |-> atTick, atSend |-> atSend]

\* sessionRef.current = await sessionPromise: the promise resolves once the
\* transport has opened; the sends that onaudioprocess chained on the promise
\* run right after
SessionReady(a) ==
  /\ pc[a] = "awaitSession"
  /\ nodes[a] # "none"
  /\ sessionRef' = a
  /\ pc' = [pc EXCEPT ![a] = "done"]
  /\ frames' = IF pending[a] # 0 /\ sess[a] = "open"
                 THEN frames \cup {Frame(a, pending[a], a)} ELSE frames
  /\ pending' = [pending EXCEPT ![a] = 0]
  /\ UNCHANGED <<wake, apiKey, isGmailAuthenticated, status, streamRef,
                 audioContextRef, audioNodesRef, nStarts, startedInError, mic,
                 sess, nodes, endedWhile, timeline, router, now>>

\* the session promise rejects: the catch block
ConnectFailed(a) ==
  /\ pc[a] = "awaitSession"
  /\ sess[a] = "connecting"
  /\ sess' = [sess EXCEPT ![a] = "closed"]
  /\ status' = "ERROR"
  /\ pc' = [pc EXCEPT ![a] = "done"]
  /\ UNCHANGED <<wake, capture,
                 apiKey, isGmailAuthenticated, sessionRef, streamRef,
                 audioContextRef, audioNodesRef, nStarts, startedInError, mic,
                 nodes, endedWhile, timeline, router, now>>

\* the transport's onerror callback; the errored transport then only closes
onerror(a) ==
  /\ sess[a] \in {"connecting", "open", "closing"}
  /\ sess' = [sess EXCEPT ![a] = "errored"]
  /\ cleanupAudioNodes
  /\ status' = "ERROR"
  /\ UNCHANGED <<wake, capture,
                 apiKey, isGmailAuthenticated, sessionRef, streamRef,
                 audioContextRef, nStarts, startedInError, pc, mic, endedWhile,
                 timeline, router, now>>

\* the transport's onclose callback: the peer closes, a local close() completes,
\* or an errored transport closes
onclose(a) ==
  /\ sess[a] \in {"open", "closing", "errored"}
  /\ sess' = [sess EXCEPT ![a] = "closed"]
  /\ cleanupAudioNodes
  /\ stopAllAudio
  /\ status' = "IDLE"
  /\ UNCHANGED <<wake, capture,
                 apiKey, isGmailAuthenticated, sessionRef, streamRef,
                 audioContextRef, nStarts, startedInError, pc, mic, endedWhile,
                 isSpeaking, sstart, router, now>>

\* handleGmailAuth, the onSuccess of the Gmail sign-in: the access token is
\* handed to gmailService and the App state is set
handleGmailAuth ==
  /\ isGmailAuthenticated' = TRUE
  /\ UNCHANGED <<wake, capture,
                 apiKey, status, sessionRef, streamRef, audioContextRef,
                 audioNodesRef, nStarts, startedInError, pc, mic, sess, nodes,
                 endedWhile, timeline, router, now>>

\* endConnection, the onClick of the End button
endConnection ==
  /\ EndButton
  /\ cleanupAudioNodes
  /\ sess' = [a \in Attempts |->
                IF a = sessionRef /\ sess[a] = "open" THEN "closing" ELSE sess[a]]
  /\ sessionRef' = 0
  /\ mic' = [a \in Attempts |-> IF a = streamRef THEN "stopped" ELSE mic[a]]
  /\ streamRef' = 0
  /\ stopAllAudio
  /\ status' = "IDLE"
  /\ endedWhile' = endedWhile \cup {a \in Attempts : pc[a] \in {"awaitMic", "awaitSession"}}
  /\ UNCHANGED <<wake, capture,
                 apiKey, isGmailAuthenticated, audioContextRef, nStarts,
                 startedInError, pc, isSpeaking, sstart, router, now>>

\* the calls of endConnection that can throw: processor / source disconnect(),
\* session.close(), track.stop(), source.stop()
ThrowingSteps == {"disconnect", "close", "trackStop", "sourceStop"}

\* endConnection when one of its calls throws. disconnect() and source.stop()
\* sit in a try / catch and the run goes on; close() and track.stop() do not,
\* and the exception leaves endConnection at that point.
endConnectionThrows(step) ==
  /\ EndButton
  /\ endedWhile' = endedWhile \cup {a \in Attempts : pc[a] \in {"awaitMic", "awaitSession"}}
  /\ audioNodesRef' = 0
  /\ CASE step = "disconnect" ->
            /\ audioNodesRef # 0
            /\ nodes' = nodes
            /\ sess' = [a \in Attempts |->
                          IF a = sessionRef /\ sess[a] = "open" THEN "closing" ELSE sess[a]]
            /\ sessionRef' = 0
            /\ mic' = [a \in Attempts |-> IF a = streamRef THEN "stopped" ELSE mic[a]]
            /\ streamRef' = 0
            /\ stopAllAudio
            /\ status' = "IDLE"
       [] step = "close" ->
            /\ sessionRef # 0
            /\ nodes' = [a \in Attempts |->
                           IF a = audioNodesRef THEN "detached" ELSE nodes[a]]
            /\ \E closing \in BOOLEAN :
                 sess' = [a \in Attempts |->
                            IF closing /\ a = sessionRef /\ sess[a] = "open"
                              THEN "closing" ELSE sess[a]]
            /\ UNCHANGED <<sessionRef, mic, streamRef, status,
                           nextStartTimeRef, sourcesRef, src, sched>>
       [] step = "trackStop" ->
            /\ streamRef # 0
            /\ nodes' = [a \in Attempts |->
                           IF a = audioNodesRef THEN "detached" ELSE nodes[a]]
            /\ sess' = [a \in Attempts |->
                          IF a = sessionRef /\ sess[a] = "open" THEN "closing" ELSE sess[a]]
            /\ sessionRef' = 0
            /\ UNCHANGED <<mic, streamRef, status, nextStartTimeRef,
                           sourcesRef, src, sched>>
       [] step = "sourceStop" ->
            /\ \E m \in sourcesRef : src[m] = "ended"
            /\ nodes' = [a \in Attempts |->
                           IF a = audioNodesRef THEN "detached" ELSE nodes[a]]
            /\ sess' = [a \in Attempts |->
                          IF a = sessionRef /\ sess[a] = "open" THEN "closing" ELSE sess[a]]
            /\ sessionRef' = 0
            /\ mic' = [a \in Attempts |-> IF a = streamRef THEN "stopped" ELSE mic[a]]
            /\ streamRef' = 0
            /\ stopAllAudio
            /\ status' = "IDLE"
  /\ UNCHANGED <<wake, capture,
                 apiKey, isGmailAuthenticated, audioContextRef, nStarts,
                 startedInError, pc, isSpeaking, sstart, router, now>>


\* ------------------------------------------------------------------ router
\* handleSessionMessage up to its first await (or to its end): interruption,
\* the audio block up to the awaited decode, and, when nothing is awaited,
\* the tool loop. The transport delivers messages once connect() has resolved,
\* until the close completes (a closing socket still delivers what is in flight).
onmessage(a, msg) ==
  LET m        == nMsgs + 1
      hasAudio == msg.audio # 0 /\ audioContextRef # 0
      cursor1  == IF msg.interrupted THEN 0 ELSE nextStartTimeRef
      cursor2  == IF hasAudio THEN ClampCursor(cursor1, now) ELSE cursor1
      sched1   == IF msg.interrupted THEN NoSched ELSE sched
      input1   == appendDelta(currentInput, Text(msg, "inputTranscription"))
      output1  == appendDelta(currentOutput, Text(msg, "outputTranscription"))
  IN
  /\ sess[a] \in {"open", "closing"}
  /\ pc[a] = "done"
  /\ nMsgs < MaxMsgs
  /\ nMsgs' = m
  /\ currentInput' = IF Flag(msg, "turnComplete") THEN <<>> ELSE input1
  /\ currentOutput' = IF Flag(msg, "turnComplete") THEN <<>> ELSE output1
  /\ heard' = [heard EXCEPT ![m] = [input |-> Text(msg, "inputTranscription"),
                                     output |-> Text(msg, "outputTranscription"),
                                     turnComplete |-> Flag(msg, "turnComplete")]]
  /\ hmsg' = [hmsg EXCEPT ![m] = [audio |-> IF hasAudio THEN msg.audio ELSE 0,
                                   calls |-> msg.calls]]
  /\ src' = IF msg.interrupted THEN StoppedSources ELSE src
  /\ sourcesRef' = IF msg.interrupted THEN {} ELSE sourcesRef
  /\ nextStartTimeRef' = cursor2
  /\ sched' = IF ~hasAudio THEN sched1
              ELSE [sched1 EXCEPT !.gap = @ \/ cursor2 > cursor1,
                                  !.expect = IF @ = -1 THEN cursor2 ELSE @]
  /\ isSpeaking' = IF hasAudio THEN TRUE
                   ELSE IF msg.interrupted THEN FALSE ELSE isSpeaking
  /\ IF hasAudio
       THEN /\ hpc' = [hpc EXCEPT ![m] = "decode"]
            /\ hctx' = [hctx EXCEPT ![m] = audioContextRef]
            /\ sent' = sent
            /\ mailCalls' = mailCalls
            /\ tasks' = tasks
       ELSE /\ hpc' = [hpc EXCEPT ![m] = "done"]
            /\ hctx' = hctx
            /\ tasks' = persistTasks(tasks, msg.calls)
            /\ mailCalls' = mailCalls + gmailCalls(msg.calls)
            /\ \E mail \in MailOutcomes :
                 sent' = sent \o ToolResponses(m, msg.calls, sessionRef, mail)
  /\ UNCHANGED <<lifecycle, sstart, now>>

\* a continuation that registers a handle although the decode was rejected
DecodeDoneKeepsHandle(m) ==
  /\ hpc[m] = "decode"
  /\ \E r \in decodeAudioData(hmsg[m].audio) :
       /\ src' = [src EXCEPT ![m] = IF r = "buffer" THEN "playing" ELSE @]
       /\ sstart' = [sstart EXCEPT ![m] = IF r = "buffer" THEN nextStartTimeRef ELSE @]
       /\ nextStartTimeRef' = AdvanceCursor(nextStartTimeRef, hmsg[m].audio)
       /\ sourcesRef' = sourcesRef \cup {m}
       /\ sched' = IF r = "buffer"
                     THEN [n |-> sched.n + 1,
                           end |-> nextStartTimeRef + hmsg[m].audio,
                           gap |-> FALSE,
                           expect |-> IF sched.expect = -1 THEN -1
                                      ELSE sched.expect + hmsg[m].audio]
                     ELSE sched
  /\ hpc' = [hpc EXCEPT ![m] = "done"]
  /\ tasks' = persistTasks(tasks, hmsg[m].calls)
  /\ mailCalls' = mailCalls + gmailCalls(hmsg[m].calls)
  /\ \E mail \in MailOutcomes :
       sent' = sent \o ToolResponses(m, hmsg[m].calls, sessionRef, mail)
  /\ UNCHANGED <<lifecycle, isSpeaking, nMsgs, hmsg, hctx, currentInput,
                 currentOutput, heard, now>>

\* a continuation whose catch block puts the session in ERROR
DecodeDoneSetsError(m) ==
  /\ hpc[m] = "decode"
  /\ \E r \in decodeAudioData(hmsg[m].audio) :
       IF r = "buffer"
         THEN /\ src' = [src EXCEPT ![m] = "playing"]
              /\ sstart' = [sstart EXCEPT ![m] = nextStartTimeRef]
              /\ nextStartTimeRef' = AdvanceCursor(nextStartTimeRef, hmsg[m].audio)
              /\ sourcesRef' = sourcesRef \cup {m}
              /\ sched' = [n |-> sched.n + 1,
                            end |-> nextStartTimeRef + hmsg[m].audio,
                            gap |-> FALSE,
                            expect |-> IF sched.expect = -1 THEN -1
                                       ELSE sched.expect + hmsg[m].audio]
              /\ status' = status
         ELSE /\ UNCHANGED <<src, sstart, nextStartTimeRef, sourcesRef, sched>>
              /\ status' = "ERROR"
  /\ hpc' = [hpc EXCEPT ![m] = "done"]
  /\ tasks' = persistTasks(tasks, hmsg[m].calls)
  /\ mailCalls' = mailCalls + gmailCalls(hmsg[m].calls)
  /\ \E mail \in MailOutcomes :
       sent' = sent \o ToolResponses(m, hmsg[m].calls, sessionRef, mail)
  /\ UNCHANGED <<wake, capture, apiKey, isGmailAuthenticated, sessionRef,
                 streamRef, audioContextRef, audioNodesRef, nStarts,
                 startedInError, pc, mic, sess, nodes, endedWhile, isSpeaking,
                 nMsgs, hmsg, hctx, currentInput, currentOutput, heard, now>>

\* the continuation after await decodeAudioData: start the source at the
\* cursor (or the catch block), then the tool loop
DecodeDone(m) ==
  /\ hpc[m] = "decode"
  /\ \E r \in decodeAudioData(hmsg[m].audio) :
       IF r = "buffer"
         THEN /\ src' = [src EXCEPT ![m] = "playing"]
              /\ sstart' = [sstart EXCEPT ![m] = nextStartTimeRef]
              /\ nextStartTimeRef' = AdvanceCursor(nextStartTimeRef, hmsg[m].audio)
              /\ sourcesRef' = sourcesRef \cup {m}
              /\ sched' = [n |-> sched.n + 1,
                            end |-> nextStartTimeRef + hmsg[m].audio,
                            gap |-> FALSE,
                            expect |-> IF sched.expect = -1 THEN -1
                                       ELSE sched.expect + hmsg[m].audio]
         ELSE UNCHANGED <<src, sstart, nextStartTimeRef, sourcesRef, sched>>
  /\ hpc' = [hpc EXCEPT ![m] = "done"]
  /\ tasks' = persistTasks(tasks, hmsg[m].calls)
  /\ mailCalls' = mailCalls + gmailCalls(hmsg[m].calls)
  /\ \E mail \in MailOutcomes :
       sent' = sent \o ToolResponses(m, hmsg[m].calls, sessionRef, mail)
  /\ UNCHANGED <<lifecycle, isSpeaking, nMsgs, hmsg, hctx, currentInput,
                 currentOutput, heard, now>>

\* a started source plays to its end (its ended event is then pending)
NaturalEnd(m) ==
  /\ src[m] = "playing"
  /\ hctx[m] = audioContextRef => now >= sstart[m] + hmsg[m].audio
  /\ src' = [src EXCEPT ![m] = "ended"]
  /\ UNCHANGED <<lifecycle, isSpeaking, nextStartTimeRef, sourcesRef, sstart,
                 sched, router, now>>

\* an ended callback that removes the handle and leaves isSpeaking alone
onendedKeepsSpeaking(m) ==
  /\ src[m] \in {"ended", "stopped"}
  /\ src' = [src EXCEPT ![m] = "none"]
  /\ sstart' = [sstart EXCEPT ![m] = 0]
  /\ sourcesRef' = sourcesRef \ {m}
  /\ hmsg' = [hmsg EXCEPT ![m].audio = 0]
  /\ UNCHANGED <<lifecycle, isSpeaking, nextStartTimeRef, sched, nMsgs, hpc,
                 hctx, sent, mailCalls, tasks, currentInput, currentOutput,
                 heard, now>>

\* source.onended, after a natural end or after stop()
onended(m) ==
  /\ src[m] \in {"ended", "stopped"}
  /\ src' = [src EXCEPT ![m] = "none"]
  /\ sstart' = [sstart EXCEPT ![m] = 0]
  /\ sourcesRef' = sourcesRef \ {m}
  /\ isSpeaking' = IF sourcesRef \ {m} = {} THEN FALSE ELSE isSpeaking
  /\ hmsg' = [hmsg EXCEPT ![m].audio = 0]
  /\ UNCHANGED <<lifecycle, nextStartTimeRef, sched, nMsgs, hpc, hctx, sent,
                 mailCalls, tasks, currentInput, currentOutput, heard, now>>

\* the output context's clock advances
Tick ==
  /\ audioContextRef # 0
  /\ now < MaxTime
  /\ now' = now + 1
  /\ UNCHANGED <<lifecycle, timeline, router>>

\* ----------------------------------------------------------------- capture
\* scriptProcessor.onaudioprocess of attempt a: the processor its onopen
\* attached delivers one frame. With no session handle in sessionRef the
\* frame is dropped; otherwise the send is chained on the attempt's own
\* sessionPromise: it runs at once when the promise has resolved (a send on a
\* transport that is no longer open fails and is swallowed), and waits for
\* the promise otherwise.
onaudioprocess(a) ==
  /\ nodes[a] = "attached"
  /\ IF sessionRef = 0
       THEN UNCHANGED capture
       ELSE IF pc[a] = "done"
         THEN /\ frames' = IF sess[a] = "open"
                             THEN frames \cup {Frame(a, sessionRef, sessionRef)}
                             ELSE frames
              /\ pending' = pending
         ELSE /\ pending' = [pending EXCEPT ![a] = sessionRef]
              /\ frames' = frames
  /\ UNCHANGED <<wake, apiKey, isGmailAuthenticated, status, sessionRef,
                 streamRef, audioContextRef, audioNodesRef, nStarts,
                 startedInError, pc, mic, sess, nodes, endedWhile, timeline,
                 router, now>>

\* ------------------------------------------------- the wake-word detector
\* What the browser's recognition does with an object: "starting" after
\* recognition.start() until its start event, "listening" after it; stop()
\* asks it to end ("stopping"), and when stop() comes before the start event
\* ("stoppingEarly") that event may still be delivered; "ended" after its end
\* event.
EngineStates == {"none", "starting", "listening", "stopping", "stoppingEarly", "ended"}

\* WakeWordDetector.start(): a new SpeechRecognition with the four handlers,
\* then recognition.start()
start ==
  /\ nRecognitions < MaxRecognitions
  /\ nRecognitions' = nRecognitions + 1
  /\ recognition' = nRecognitions + 1
  /\ engine' = [engine EXCEPT ![nRecognitions + 1] = "starting"]
  /\ stopped' = FALSE
  /\ UNCHANGED <<isListening, isWakeWordListening, timers, capture, apiKey,
                 isGmailAuthenticated, status, sessionRef, streamRef,
                 audioContextRef, audioNodesRef, nStarts, startedInError, pc,
                 mic, sess, nodes, endedWhile, timeline, router, now>>

\* recognition.onstart of object r
onstart(r) ==
  /\ engine[r] \in {"starting", "stoppingEarly"}
  /\ engine' = [engine EXCEPT ![r] = IF @ = "starting" THEN "listening" ELSE "stopping"]
  /\ isListening' = TRUE
  /\ isWakeWordListening' = TRUE
  /\ UNCHANGED <<recognition, nRecognitions, timers, stopped, capture, apiKey,
                 isGmailAuthenticated, status, sessionRef, streamRef,
                 audioContextRef, audioNodesRef, nStarts, startedInError, pc,
                 mic, sess, nodes, endedWhile, timeline, router, now>>

\* the errors recognition.onerror receives
RecognitionErrors == {"no-speech", "aborted"}

\* recognition.onerror of object r: a restart is scheduled after 'no-speech'
recognitionError(r, error) ==
  /\ engine[r] \in {"starting", "listening", "stopping", "stoppingEarly"}
  /\ timers < MaxTimers
  /\ timers' = IF error = "no-speech" THEN timers + 1 ELSE timers
  /\ UNCHANGED <<recognition, isListening, isWakeWordListening, engine,
                 nRecognitions, stopped, capture, apiKey, isGmailAuthenticated,
                 status, sessionRef, streamRef, audioContextRef, audioNodesRef,
                 nStarts, startedInError, pc, mic, sess, nodes, endedWhile,
                 timeline, router, now>>

\* recognition.onend of object r: the recognition ended by itself, after an
\* error, or after stop(); a restart is scheduled while the detector holds a
\* recognition
onend(r) ==
  /\ engine[r] \in {"starting", "listening", "stopping", "stoppingEarly"}
  /\ recognition # 0 => timers < MaxTimers
  /\ engine' = [engine EXCEPT ![r] = "ended"]
  /\ isListening' = FALSE
  /\ isWakeWordListening' = FALSE
  /\ timers' = IF recognition # 0 THEN timers + 1 ELSE timers
  /\ UNCHANGED <<recognition, nRecognitions, stopped, capture, apiKey,
                 isGmailAuthenticated, status, sessionRef, streamRef,
                 audioContextRef, audioNodesRef, nStarts, startedInError, pc,
                 mic, sess, nodes, endedWhile, timeline, router, now>>

\* a restart timer fires: WakeWordDetector.restart(). recognition.start() on
\* an object that has not ended throws, and the throw is swallowed.
restart ==
  /\ timers > 0
  /\ timers' = timers - 1
  /\ engine' = IF recognition # 0 /\ ~isListening
                 THEN [engine EXCEPT ![recognition] =
                         IF @ = "ended" THEN "starting" ELSE @]
                 ELSE engine
  /\ UNCHANGED <<recognition, isListening, isWakeWordListening, nRecognitions,
                 stopped, capture, apiKey, isGmailAuthenticated, status,
                 sessionRef, streamRef, audioContextRef, audioNodesRef, nStarts,
                 startedInError, pc, mic, sess, nodes, endedWhile, timeline,
                 router, now>>

\* WakeWordDetector.stop()
stop ==
  /\ IF recognition # 0
       THEN /\ engine' = [engine EXCEPT ![recognition] =
                            CASE @ = "starting"  -> "stoppingEarly"
                              [] @ = "listening" -> "stopping"
                              [] OTHER           -> @]
            /\ recognition' = 0
            /\ isListening' = FALSE
            /\ isWakeWordListening' = FALSE
       ELSE UNCHANGED <<engine, recognition, isListening, isWakeWordListening>>
  /\ stopped' = TRUE
  /\ UNCHANGED <<nRecognitions, timers, capture, apiKey, isGmailAuthenticated,
                 status, sessionRef, streamRef, audioContextRef, audioNodesRef,
                 nStarts, startedInError, pc, mic, sess, nodes, endedWhile,
                 timeline, router, now>>

\* ---------------------------------------------------------- specification
\* The lifecycle alone: any number of starts (button or wake word), ends and
\* transport callbacks, with no inbound message.
NextLifecycle ==
  \/ ClickStart
  \/ WakeWord
  \/ endConnection
  \/ \E a \in Attempts : MicGranted(a)
  \/ \E a \in Attempts : MicDenied(a)
  \/ \E a \in Attempts : onopen(a)
  \/ \E a \in Attempts : SessionReady(a)
  \/ \E a \in Attempts : ConnectFailed(a)
  \/ \E a \in Attempts : onerror(a)
  \/ \E a \in Attempts : onclose(a)

SpecLifecycle == Init /\ [][NextLifecycle]_vars

\* The lifecycle with the capture callbacks of the attempts.
NextCapture ==
  \/ NextLifecycle
  \/ \E a \in Attempts : onaudioprocess(a)

SpecCapture == Init /\ [][NextCapture]_vars

\* The wake-word detector alone: start() and stop() called by its owner, the
\* events of its recognition objects, and its restart timers.
NextWakeWord ==
  \/ start
  \/ stop
  \/ restart
  \/ \E r \in Recognitions : onstart(r)
  \/ \E r \in Recognitions : onend(r)
  \/ \E r \in Recognitions : \E error \in RecognitionErrors : recognitionError(r, error)

SpecWakeWord == Init /\ [][NextWakeWord]_vars

\* the single start request of one conversation
StartOnce == nStarts = 0 /\ ClickStart

\* the messages that carry no tool call, and those that carry no interruption
AudioMessages == {msg \in Messages : msg.calls = <<>>}
ToolMessages  == {msg \in Messages : ~msg.interrupted}

\* One conversation, started once from the button, seen from the output
\* timeline: its transport callbacks, its audio and interruption messages and
\* their handlers, the playback events, the clock, and the End button.
NextTimeline ==
  \/ StartOnce
  \/ endConnection
  \/ \E a \in Attempts : MicGranted(a)
  \/ \E a \in Attempts : onopen(a)
  \/ \E a \in Attempts : SessionReady(a)
  \/ \E a \in Attempts : onclose(a)
  \/ \E a \in Attempts : \E msg \in AudioMessages : onmessage(a, msg)
  \/ \E m \in MsgIds : DecodeDone(m)
  \/ \E m \in MsgIds : NaturalEnd(m)
  \/ \E m \in MsgIds : onended(m)
  \/ Tick

SpecTimeline == Init /\ [][NextTimeline]_vars

\* One conversation that stays connected, seen from the output timeline: its
\* audio and interruption messages and their handlers, the playback events and
\* the clock.
NextPlayback ==
  \/ StartOnce
  \/ \E a \in Attempts : MicGranted(a)
  \/ \E a \in Attempts : onopen(a)
  \/ \E a \in Attempts : SessionReady(a)
  \/ \E a \in Attempts : \E msg \in AudioMessages : onmessage(a, msg)
  \/ \E m \in MsgIds : DecodeDone(m)
  \/ \E m \in MsgIds : NaturalEnd(m)
  \/ \E m \in MsgIds : onended(m)
  \/ Tick

SpecPlayback == Init /\ [][NextPlayback]_vars

\* One conversation, started once from the button, seen from the tool
\* dispatcher: its transport callbacks, its messages with their tool-call
\* batches (with or without an audio chunk to decode first), and the End button.
NextTools ==
  \/ StartOnce
  \/ endConnection
  \/ \E a \in Attempts : MicGranted(a)
  \/ \E a \in Attempts : onopen(a)
  \/ \E a \in Attempts : SessionReady(a)
  \/ \E a \in Attempts : onclose(a)
  \/ \E a \in Attempts : \E msg \in ToolMessages : onmessage(a, msg)
  \/ \E m \in MsgIds : DecodeDone(m)

SpecTools == Init /\ [][NextTools]_vars

\* the batches with a mail call, alone or followed by a sibling call
MailBatches ==
  { << Call("read_emails", ""), Call("create_task", "Call mom") >>,
    << Call("search_emails", "") >> }

MailMessages == [interrupted : {FALSE}, audio : {0}, calls : MailBatches]

\* One conversation, started once from the button, in which the user may sign
\* in to Gmail and the batches carry mail calls.
NextMail ==
  \/ StartOnce
  \/ handleGmailAuth
  \/ endConnection
  \/ \E a \in Attempts : MicGranted(a)
  \/ \E a \in Attempts : onopen(a)
  \/ \E a \in Attempts : SessionReady(a)
  \/ \E a \in Attempts : onclose(a)
  \/ \E a \in Attempts : \E msg \in MailMessages : onmessage(a, msg)

SpecMail == Init /\ [][NextMail]_vars

\* the messages that carry transcript deltas or a turn-complete marker, with or
\* without an audio chunk to decode
TranscriptMessages ==
  [interrupted : {FALSE}, audio : {0, MaxDur}, calls : {<<>>},
   inputTranscription : {"", "a"}, outputTranscription : {"b", "c"},
   turnComplete : BOOLEAN]

\* One conversation, started once from the button, seen from the transcript
\* buffers: its messages with their transcript fields, and their handlers.
NextTranscript ==
  \/ StartOnce
  \/ endConnection
  \/ \E a \in Attempts : MicGranted(a)
  \/ \E a \in Attempts : onopen(a)
  \/ \E a \in Attempts : SessionReady(a)
  \/ \E a \in Attempts : onclose(a)
  \/ \E a \in Attempts : \E msg \in TranscriptMessages : onmessage(a, msg)
  \/ \E m \in MsgIds : DecodeDone(m)

SpecTranscript == Init /\ [][NextTranscript]_vars

\* the messages without audio or tool call: each of the two transcript deltas
\* present or not, with or without the turn-complete marker
DeltaMessages ==
  [interrupted : {FALSE}, audio : {0}, calls : {<<>>},
   inputTranscription : {"", "a"}, outputTranscription : {"", "b"},
   turnComplete : BOOLEAN]

\* One conversation, started once from the button, whose messages carry
\* transcript events only.
NextDeltas ==
  \/ StartOnce
  \/ endConnection
  \/ \E a \in Attempts : MicGranted(a)
  \/ \E a \in Attempts : onopen(a)
  \/ \E a \in Attempts : SessionReady(a)
  \/ \E a \in Attempts : onclose(a)
  \/ \E a \in Attempts : \E msg \in DeltaMessages : onmessage(a, msg)

SpecDeltas == Init /\ [][NextDeltas]_vars

\* messages with every kind of content at once: an interruption or not, an
\* audio chunk or not, a batch with a mail call and an unknown tool or no tool
\* call, a model delta, the turn-complete marker or not
RouterMessages ==
  [interrupted : BOOLEAN, audio : {0, MaxDur},
   calls : {<<>>, << Call("read_emails", ""), Call("set_alarm", "") >>},
   outputTranscription : {"b"}, turnComplete : BOOLEAN]

\* One conversation, started once from the button, seen from the session
\* state: the transport callbacks, the Gmail sign-in, the End button, and
\* inbound messages of every kind with their handlers.
NextRouter ==
  \/ StartOnce
  \/ handleGmailAuth
  \/ endConnection
  \/ \E a \in Attempts : MicGranted(a)
  \/ \E a \in Attempts : onopen(a)
  \/ \E a \in Attempts : SessionReady(a)
  \/ \E a \in Attempts : onerror(a)
  \/ \E a \in Attempts : onclose(a)
  \/ \E a \in Attempts : \E msg \in RouterMessages : onmessage(a, msg)
  \/ \E m \in MsgIds : DecodeDone(m)

SpecRouter == Init /\ [][NextRouter]_vars

\* One conversation as in SpecTimeline, in which a call made by endConnection
\* may throw.
NextEndFaults ==
  \/ NextTimeline
  \/ \E step \in ThrowingSteps : endConnectionThrows(step)

SpecEndFaults == Init /\ [][NextEndFaults]_vars

\* Everything together.
Next ==
  \/ NextLifecycle \/ NextTimeline \/ NextPlayback \/ NextTools \/ NextMail
  \/ NextTranscript \/ NextEndFaults \/ NextDeltas \/ NextRouter
  \/ NextCapture \/ NextWakeWord

Spec == Init /\ [][Next]_vars


\* ================================================================== claims

\* C1: in every reachable state at most one transport session is open
\* (connected and not yet closed).
C1_AtMostOneOpenSession ==
  Cardinality({a \in Attempts : sess[a] = "open"}) <= 1

\* the sendToolResponse calls that answer call i of message m
Answers(m, i) ==
  {k \in 1..Len(sent) : sent[k].id = <<m, i>> /\ sent[k].name = hmsg[m].calls[i].name}

\* C2: once the handler of a message has run to its end, every call of the
\* message's batch has been answered by exactly one sendToolResponse carrying
\* the call's id and name.
C2_EveryCallAnsweredOnce ==
  \A m \in MsgIds :
    hpc[m] = "done" =>
      \A i \in 1..Len(hmsg[m].calls) : Cardinality(Answers(m, i)) = 1

\* this step passes the source of message m to source.start
ChunkStarted(m) == src[m] # "playing" /\ src'[m] = "playing"

\* C3 as stated: with no interrupt in between, chunk k is started at the first
\* chunk's max(cursor, deviceNow) plus the durations of the chunks before it,
\* whenever the chunks arrive.
C3_StartIsBasePlusDurations ==
  [][\A m \in MsgIds :
       ChunkStarted(m) /\ sched.expect # -1 => sstart'[m] = sched.expect]_vars

\* C3 as amended: with no interrupt in between, a chunk is never started before
\* the end (start + duration) of the chunk started before it, and is started
\* exactly there unless a chunk arrived in between with the device clock ahead
\* of the cursor: chunks never overlap, and a gap opens only for a late arrival.
C3_BackToBackUnlessLateArrival ==
  [][\A m \in MsgIds :
       ChunkStarted(m) /\ sched.n >= 1 =>
         /\ sstart'[m] >= sched.end
         /\ ~sched.gap => sstart'[m] = sched.end]_vars

\* C3 witness: two chunks have been started with no interrupt between them, the
\* second one exactly at the end of the first.
C3_TwoChunksBackToBack ==
  /\ sched.n >= 2
  /\ \E m1, m2 \in MsgIds :
       /\ src[m1] # "none" /\ src[m2] = "playing"
       /\ sstart[m2] = sstart[m1] + hmsg[m1].audio

\* C4: the cursor never decreases except when it is reset to 0, and a chunk is
\* never started at a time earlier than the device clock at that moment.
C4_CursorMonotoneAndNotBeforeClock ==
  [][/\ nextStartTimeRef' >= nextStartTimeRef \/ nextStartTimeRef' = 0
     /\ \A m \in MsgIds :
          ChunkStarted(m) /\ hctx[m] = audioContextRef => sstart'[m] >= now]_vars

\* a step that processes an interruption: stopAllAudio called by endConnection
\* or onclose, or a message with interrupted: true and no audio chunk
InterruptStep ==
  \/ endConnection
  \/ \E a \in Attempts : onclose(a)
  \/ \E a \in Attempts : \E msg \in AudioMessages :
       msg.interrupted /\ msg.audio = 0 /\ onmessage(a, msg)

\* C5: processing an interruption leaves the active set empty, the cursor at 0
\* and isSpeaking false (the stop() of a source that already ended is swallowed
\* by StopSource, so no error leaves the step).
C5_InterruptLeavesSchedulerIdle ==
  [][InterruptStep =>
       sourcesRef' = {} /\ nextStartTimeRef' = 0 /\ ~isSpeaking']_vars

\* every startConnection that was issued has run to its end
Settled == \A a \in Attempts : pc[a] \in {"idle", "done"}

\* C6: after endConnection ran while an attempt was suspended (awaiting the
\* microphone or the session), once every start-up step has settled that
\* attempt's microphone stream is released and its session is neither open nor
\* held in sessionRef.
C6_EndWhileConnectingReleasesAll ==
  \A a \in endedWhile :
    Settled => mic[a] # "live" /\ sess[a] \notin {"connecting", "open"} /\ sessionRef # a

\* C7: every step from CONNECTED to IDLE stops the capture pipeline, closes the
\* transport handle, releases the microphone and interrupts the scheduler, so
\* that in IDLE the held stream is stopped and the session reference is cleared
\* (the order of the four steps inside one handler run is not observable).
C7_ConnectedToIdleCleansUp ==
  [][status = "CONNECTED" /\ status' = "IDLE" =>
       /\ audioNodesRef' = 0
       /\ sessionRef' = 0
       /\ sessionRef # 0 => sess'[sessionRef] # "open"
       /\ streamRef' = 0
       /\ streamRef # 0 => mic'[streamRef] = "stopped"
       /\ sourcesRef' = {} /\ nextStartTimeRef' = 0]_vars

\* C8: when onerror fires the state becomes ERROR and the capture callback is
\* detached, the held microphone stream stopped, the session handle closed and
\* cleared, and scheduled playback stopped.
C8_ErrorReleasesAll ==
  [][(\E a \in Attempts : onerror(a)) =>
       /\ status' = "ERROR"
       /\ audioNodesRef' = 0
       /\ streamRef' = 0
       /\ streamRef # 0 => mic'[streamRef] = "stopped"
       /\ sessionRef' = 0
       /\ sessionRef # 0 => sess'[sessionRef] # "open"
       /\ sourcesRef' = {} /\ nextStartTimeRef' = 0]_vars

\* a credential that is missing, blank (empty or only spaces) or the placeholder
MissingBlankOrPlaceholder(k) ==
  \/ ~k.defined
  \/ k.chars = PLACEHOLDER
  \/ \A i \in 1..Len(k.chars) : k.chars[i] = " "

\* C9: with a missing, blank or placeholder credential no start request ever
\* requests the microphone, creates audio contexts or opens a transport session,
\* and every start request ends in ERROR.
C9_BadCredentialAcquiresNothing ==
  MissingBlankOrPlaceholder(apiKey) =>
    /\ \A a \in Attempts :
         pc[a] \in {"idle", "done"} /\ mic[a] = "none" /\ sess[a] = "none"
    /\ audioContextRef = 0 /\ streamRef = 0 /\ sessionRef = 0
    /\ nStarts > 0 => status = "ERROR"

\* C9 witness: a start request was issued with a blank credential.
C9_StartedWithBlankCredential ==
  /\ apiKey.defined /\ apiKey.chars # <<>> /\ trim(apiKey.chars) = <<>>
  /\ nStarts > 0
  /\ status = "ERROR"

\* C10: no live microphone stream and no open transport session is orphaned
\* (live but not, or no longer to be, referenced by the controller), and no
\* start-up begins with scheduler state left over from a previous session.
C10_NoOrphansNoStaleScheduler ==
  /\ \A a \in Attempts : mic[a] = "live" => streamRef = a
  /\ \A a \in Attempts :
       sess[a] = "open" => sessionRef = a \/ pc[a] = "awaitSession"
  /\ \A a \in Attempts :
       pc[a] = "awaitMic" => sourcesRef = {} /\ nextStartTimeRef = 0

\* attempt a was started in ERROR and nothing else has intervened since: no
\* later start, and no End pressed while it was suspended
RestartAfterError(a) ==
  a \in startedInError /\ nStarts = a /\ a \notin endedWhile

\* C11: when the onopen of a start issued in ERROR fires, the state becomes
\* CONNECTED and the resources are those a start from IDLE ends with: one live
\* microphone stream, the one streamRef holds, one transport session that is not
\* closed, and the capture nodes of that attempt.
C11_RestartFromErrorLikeFromIdle ==
  [][\A a \in Attempts :
       onopen(a) /\ RestartAfterError(a) =>
         /\ status' = "CONNECTED"
         /\ {b \in Attempts : mic'[b] = "live"} = {a} /\ streamRef' = a
         /\ {b \in Attempts : sess'[b] \notin {"none", "closed"}} = {a}
         /\ audioContextRef' = a /\ audioNodesRef' = a]_vars

\* no handler is suspended in its awaited decode
Quiescent == \A m \in MsgIds : hpc[m] # "decode"

\* C12: while no decode is pending, isSpeaking is true exactly when the active
\* set is non-empty (also after a chunk failed to decode).
C12_SpeakingIffActive ==
  Quiescent => (isSpeaking <=> sourcesRef # {})

\* C13: when the chunk of the only message so far is started, it is the one
\* active handle, the cursor is its start time plus its duration and isSpeaking
\* is true; when its ended callback fires, the active set becomes empty and
\* isSpeaking false.
C13_OneChunkPlaysThenEnds ==
  [][nMsgs = 1 =>
       /\ ChunkStarted(1) =>
            /\ sourcesRef' = {1}
            /\ nextStartTimeRef' = sstart'[1] + hmsg[1].audio
            /\ isSpeaking'
       /\ onended(1) => sourcesRef' = {} /\ ~isSpeaking']_vars

\* C13 witness: the one chunk of a connected session was started, has played
\* to its end and its ended callback has fired.
C13_OneChunkPlayedOut ==
  /\ status = "CONNECTED" /\ nMsgs = 1 /\ hpc[1] = "done"
  /\ sched.n = 1 /\ nextStartTimeRef > 0
  /\ src[1] = "none" /\ sourcesRef = {} /\ ~isSpeaking

\* C18: chunks lie on the timeline in the order their messages arrived: of two
\* playing chunks, the one that arrived first has the earlier start time.
C18_TimelineFollowsArrivalOrder ==
  \A m1, m2 \in MsgIds :
    m1 < m2 /\ src[m1] = "playing" /\ src[m2] = "playing" => sstart[m1] < sstart[m2]

\* this step is the continuation of message m after a rejected decode
DecodeFailed(m) == hpc[m] = "decode" /\ hpc'[m] = "done" /\ src'[m] # "playing"

\* the chunk of message m failed to decode and was dropped
Dropped(m) == hpc[m] = "done" /\ hmsg[m].audio > 0 /\ src[m] = "none"

\* C20: a rejected decode adds no handle, moves neither the cursor nor the
\* session state, and a chunk of a later message is afterwards still started at
\* the cursor and added to the active set.
C20_FailedDecodeDropsOneChunk ==
  [][\A m \in MsgIds :
       /\ DecodeFailed(m) =>
            /\ sourcesRef' = sourcesRef /\ nextStartTimeRef' = nextStartTimeRef
            /\ status' = status /\ sess' = sess /\ sessionRef' = sessionRef
       /\ ChunkStarted(m) /\ (\E m1 \in MsgIds : m1 < m /\ Dropped(m1)) =>
            /\ m \in sourcesRef'
            /\ sstart'[m] = nextStartTimeRef
            /\ nextStartTimeRef' = nextStartTimeRef + hmsg[m].audio]_vars

\* C20 witness: in a connected session the chunk of an earlier message was
\* dropped and the chunk of a later one is playing.
C20_LaterChunkPlaysAfterDrop ==
  /\ status = "CONNECTED"
  /\ \E m1, m2 \in MsgIds :
       m1 < m2 /\ Dropped(m1) /\ src[m2] = "playing" /\ m2 \in sourcesRef

\* C14: once the handler of a message has run to its end, every call of its
\* batch, recognized or not, has a response, and the responses to a call with an
\* unrecognized name carry the result "ok".
C14_UnknownToolAnsweredOk ==
  \A m \in MsgIds :
    hpc[m] = "done" =>
      \A i \in 1..Len(hmsg[m].calls) :
        /\ Answers(m, i) # {}
        /\ hmsg[m].calls[i].name \notin ToolNames =>
             \A k \in Answers(m, i) : sent[k].result = <<"ok">>

\* this step runs the tool loop of message m (its handler reaches its end)
ToolLoopRuns(m) == hpc[m] # "done" /\ hpc'[m] = "done"

\* the create_task calls of a batch
CreateCalls(calls) == {i \in 1..Len(calls) : calls[i].name = "create_task"}

\* C16: when the tool loop runs over a batch with one create_task call (id i,
\* title t) while a session handle is held, exactly one response with id i is
\* sent, it has name create_task and result 'Task created: "t"', and the stored
\* task list is the old one with one record of title t appended.
C16_CreateTaskAnswersAndPersists ==
  [][\A m \in MsgIds : \A i \in 1..Len(hmsg'[m].calls) :
       ToolLoopRuns(m) /\ sessionRef # 0 /\ CreateCalls(hmsg'[m].calls) = {i} =>
         LET t == hmsg'[m].calls[i].title
             R == {k \in 1..Len(sent') : sent'[k].id = <<m, i>>}
         IN /\ Cardinality(R) = 1
            /\ \A k \in R :
                 /\ k > Len(sent)
                 /\ sent'[k].name = "create_task"
                 /\ sent'[k].result = <<"Task created: \"", t, "\"">>
            /\ Len(tasks') = Len(tasks) + 1
            /\ SubSeq(tasks', 1, Len(tasks)) = tasks
            /\ tasks'[Len(tasks')].title = t]_vars

\* C16 witness: two create_task calls with different titles were answered and
\* their tasks stored, the earlier one first.
C16_TwoTasksStored ==
  /\ Len(tasks) = 2 /\ tasks[1].title # tasks[2].title
  /\ \A n \in 1..2 :
       \E k \in 1..Len(sent) :
         sent[k].result = <<"Task created: \"", tasks[n].title, "\"">>

\* the responses this step sends for call i of message m
NewAnswers(m, i) == {k \in Len(sent) + 1 .. Len(sent') : sent'[k].id = <<m, i>>}

RECURSIVE InArrivalOrder(_, _)
InArrivalOrder(k, field) ==
  IF k = 0 \/ heard[k].turnComplete THEN <<>>
  ELSE IF heard[k][field] = "" THEN InArrivalOrder(k - 1, field)
  ELSE InArrivalOrder(k - 1, field) \o <<heard[k][field]>>

\* C17: at every moment both transcript buffers hold exactly what the messages
\* received so far produce when applied in arrival order, whether or not the
\* handlers of earlier messages are still suspended.
C17_TranscriptInArrivalOrder ==
  /\ currentInput = InArrivalOrder(nMsgs, "input")
  /\ currentOutput = InArrivalOrder(nMsgs, "output")

\* C17 witness: the first message's handler is still awaiting its decode and
\* the model transcript already shows its delta followed by the second one's.
C17_LaterDeltaBehindSuspendedHandler ==
  /\ nMsgs >= 2 /\ hpc[1] = "decode"
  /\ heard[1].output # "" /\ heard[2].output # "" /\ heard[1].output # heard[2].output
  /\ currentOutput = <<heard[1].output, heard[2].output>>

\* C19: when one call of endConnection throws, every other cleanup step has
\* still run when endConnection returns (capture nodes released, session handle
\* closed and cleared, microphone stopped and cleared, scheduler interrupted)
\* and the state is IDLE.
C19_CleanupStepsIndependentlyGuarded ==
  [][\A step \in ThrowingSteps :
       endConnectionThrows(step) =>
         /\ status' = "IDLE"
         /\ audioNodesRef' = 0
         /\ step # "close" =>
              sessionRef' = 0 /\ (sessionRef # 0 => sess'[sessionRef] # "open")
         /\ step # "trackStop" =>
              streamRef' = 0 /\ (streamRef # 0 => mic'[streamRef] = "stopped")
         /\ sourcesRef' = {} /\ nextStartTimeRef' = 0]_vars


\* ------------------------------------------------- the mail sign-in test
\* the result of a mail call that fails the sign-in test
SignInAdvisory(name) ==
  IF name = "read_emails"
    THEN <<"Please sign in to Gmail first to read your emails.">>
    ELSE <<"Please sign in to Gmail first to search your emails.">>

\* C21: while the user has not signed in to Gmail, a step makes no
\* gmailService call, and every read_emails / search_emails call of a tool
\* loop that runs with a session handle is answered with the sign-in advisory.
C21_SignInTestedBeforeMailCall ==
  [][ ~isGmailAuthenticated =>
        /\ mailCalls' = mailCalls
        /\ \A m \in MsgIds : \A i \in DOMAIN hmsg'[m].calls :
             /\ ToolLoopRuns(m) /\ sessionRef # 0
             /\ hmsg'[m].calls[i].name \in MailTools
             => /\ NewAnswers(m, i) # {}
                /\ \A k \in NewAnswers(m, i) :
                     sent'[k].result = SignInAdvisory(hmsg'[m].calls[i].name) ]_vars

\* a read_emails call and a search_emails call were answered with the sign-in
\* advisory while the user had not signed in, and gmailService was never called
C21_BothMailToolsAdvisedSignedOut ==
  /\ ~isGmailAuthenticated
  /\ mailCalls = 0
  /\ \A name \in MailTools :
       \E k \in DOMAIN sent :
         sent[k].name = name /\ sent[k].result = SignInAdvisory(name)

\* C27: once the user has signed in to Gmail, every read_emails /
\* search_emails call a tool loop processes makes a gmailService call and, when
\* answered, is not answered with the sign-in advisory.
C27_SignedInMailCallsReachGmail ==
  [][ \A m \in MsgIds : \A i \in DOMAIN hmsg'[m].calls :
        /\ ToolLoopRuns(m) /\ isGmailAuthenticated
        /\ hmsg'[m].calls[i].name \in MailTools
        => /\ mailCalls' > mailCalls
           /\ \A k \in NewAnswers(m, i) :
                sent'[k].result # SignInAdvisory(hmsg'[m].calls[i].name) ]_vars


\* ------------------------------------------------ transcript accumulators
\* C23: the message a step receives appends its user delta to the user buffer
\* only and its model delta to the model buffer only (an absent delta leaves
\* the buffer as it was); when it carries the turn-complete marker both
\* buffers are empty after the step, whatever deltas it carried.
C23_DeltaToOwnBufferTurnCompleteClears ==
  [][ nMsgs' = nMsgs + 1 =>
        LET h == heard'[nMsgs'] IN
        IF h.turnComplete
          THEN currentInput' = <<>> /\ currentOutput' = <<>>
          ELSE /\ currentInput' = IF h.input = "" THEN currentInput
                                  ELSE Append(currentInput, h.input)
               /\ currentOutput' = IF h.output = "" THEN currentOutput
                                   ELSE Append(currentOutput, h.output) ]_vars

\* a message with a user delta only was followed by one carrying both deltas
\* and the turn-complete marker, and both buffers are empty
C23_TurnCompleteWithDeltasCleared ==
  /\ nMsgs >= 2
  /\ ~heard[nMsgs - 1].turnComplete
  /\ heard[nMsgs - 1].input # "" /\ heard[nMsgs - 1].output = ""
  /\ heard[nMsgs].turnComplete
  /\ heard[nMsgs].input # "" /\ heard[nMsgs].output # ""
  /\ currentInput = <<>> /\ currentOutput = <<>>


\* ------------------------------------------- the router and the session state
\* C24: a step of a message handler (a message is received, or a suspended
\* handler resumes after its decode and runs its tool loop) leaves status as
\* it was; a step that changes status is a start, the catch block or a
\* transport callback of an attempt, or endConnection.
C24_MessageHandlingKeepsStatus ==
  [][ /\ (nMsgs' # nMsgs \/ hpc' # hpc) => status' = status
      /\ status' # status =>
           \/ nStarts' # nStarts
           \/ pc' # pc
           \/ sess' # sess
           \/ EndButton /\ status' = "IDLE" /\ sessionRef' = 0 ]_vars

\* the session is CONNECTED after a handler whose decode was rejected (its
\* chunk has no source) has answered a mail call and an unknown tool
C24_ConnectedAfterFailedDecodeAndUnknownTool ==
  /\ status = "CONNECTED"
  /\ \E m \in MsgIds :
       /\ hpc[m] = "done" /\ hmsg[m].audio # 0 /\ src[m] = "none"
       /\ \E k \in DOMAIN sent : sent[k].id = <<m, 1>> /\ sent[k].name = "read_emails"
       /\ \E k \in DOMAIN sent : sent[k].id = <<m, 2>> /\ sent[k].result = <<"ok">>


\* --------------------------------------------------------- capture frames
\* C22: every sendRealtimeInput call carries a frame captured while
\* sessionRef.current held a session handle, and is made on the session that
\* sessionRef.current holds at the call.
C22_FramesGoToCurrentSessionOnly ==
  \A f \in frames : f.atTick # 0 /\ f.to = f.atSend

\* ------------------------------------------------------ wake-word detector
\* C28: from the return of stop() until the next start(), the detector's
\* isListening is false, the listening state reported to the App is false, and
\* recognition.start() is issued on no object.
C28_StoppedDetectorStaysSilent ==
  [][ stopped' =>
        /\ ~isListening'
        /\ ~isWakeWordListening'
        /\ stopped =>
             \A r \in Recognitions : engine'[r] = "starting" => engine[r] = "starting" ]_vars


\* ------------------------------------------ chunks across an interruption
\* C25: no chunk is started, nor added to the active set, while the timeline
\* is as stopAllAudio left it (no chunk has arrived since stopAllAudio ran):
\* such a chunk arrived before the interruption or the end of the
\* conversation and its decode was pending when stopAllAudio ran.
C25_NoChunkStartsAcrossStopAllAudio ==
  [][\A m \in MsgIds :
       sched.expect = -1 => ~ChunkStarted(m) /\ (m \in sourcesRef' => m \in sourcesRef)]_vars

\* ------------------------------------------------ callbacks of an ended attempt
\* C26: the onopen callback and the session assignment of an attempt that was
\* suspended when endConnection ran change neither status nor the capture
\* nodes nor the session handle.
C26_LateCallbacksOfEndedAttemptInert ==
  [][\A a \in endedWhile :
       onopen(a) \/ SessionReady(a) =>
         /\ status' = status
         /\ nodes' = nodes /\ audioNodesRef' = audioNodesRef
         /\ sessionRef' = sessionRef]_vars

====
